---- MODULE Spec2Model ----
(***************************************************************************)
(* Model of bin/check_arlo_mode.py: build_schedule, find_entry,           *)
(* check_station_mode, SMTPManager and the station loop of main.          *)
(*                                                                         *)
(* Text values (configuration values, mode labels) are sequences of       *)
(* one-character strings.  A time-of-day string "HH:MM" or "HH:MM AM" is   *)
(* the record of its fields [hh, mm, p], p being "AM", "PM" or "" when no  *)
(* meridiem is written.  A datetime is the record of its seven fields.     *)
(***************************************************************************)
EXTENDS Integers, Sequences, FiniteSets, TLC

VARIABLES
    config,         \* the RawConfigParser contents read by main
    stations,       \* station.mode of each of arlo.base_stations, in order
    now,            \* the value of the latest datetime.now()
    pc,             \* position of main
    error,          \* the exception that ended the run, "" when none
    entries,        \* build_schedule: the entry names after splitting
    selected_fmt,   \* build_schedule: selected_fmt
    projected,      \* build_schedule: (start, end) of each entry after lines 101-102
    schedule,       \* main: schedule
    recipients,     \* main: recipients after lines 58-61
    station,        \* main: 1-based index of the station of the loop
    found_entry,    \* main: found_entry, <<>> when unset
    connection,     \* SMTPManager._connection: "None" or "SMTP"
    session,        \* the SMTP session on the wire: "none", "connected", "ready", "closed"
    raised,         \* an exception is propagating through the with block
    checked         \* history: one record per call of check_station_mode

vars == <<config, stations, now, pc, error, entries, selected_fmt, projected,
          schedule, recipients, station, found_entry, connection, session,
          raised, checked>>

\* Bounds of the model.
MaxStations == 2
MaxListLen == 4

-----------------------------------------------------------------------------
\* Text helpers (str methods used by the program).

\* ',' in s
HasComma(s) == \E i \in 1..Len(s) : s[i] = ","

RECURSIVE LStrip(_)
LStrip(s) == IF s # <<>> /\ Head(s) = " " THEN LStrip(Tail(s)) ELSE s

RECURSIVE RStrip(_)
RStrip(s) ==
    IF s # <<>> /\ s[Len(s)] = " " THEN RStrip(SubSeq(s, 1, Len(s) - 1)) ELSE s

\* str.strip
Strip(s) == RStrip(LStrip(s))

\* index of the first comma of s (s has one)
FirstComma(s) == CHOOSE i \in 1..Len(s) :
                    s[i] = "," /\ \A j \in 1..(i - 1) : s[j] # ","

\* s.split(',')
RECURSIVE SplitComma(_)
SplitComma(s) ==
    IF ~HasComma(s) THEN <<s>>
    ELSE LET i == FirstComma(s)
         IN  <<SubSeq(s, 1, i - 1)>> \o SplitComma(SubSeq(s, i + 1, Len(s)))

\* map(str.strip, pieces)
MapStrip(pieces) == [k \in 1..Len(pieces) |-> Strip(pieces[k])]

\* str.lower, on the letters of the model's alphabet
LowerChar(c) == CASE c = "A" -> "a"
                  [] c = "R" -> "r"
                  [] c = "D" -> "d"
                  [] OTHER -> c

Lower(s) == [k \in 1..Len(s) |-> LowerChar(s[k])]

\* int(text) of RawConfigParser.getint: <<n>>, or <<>> when it raises ValueError
DigitValue(c) == CASE c = "0" -> 0 [] c = "1" -> 1 [] c = "2" -> 2 [] c = "3" -> 3
                   [] c = "4" -> 4 [] c = "5" -> 5 [] c = "6" -> 6 [] c = "7" -> 7
                   [] c = "8" -> 8 [] c = "9" -> 9 [] OTHER -> -1

RECURSIVE DigitsValue(_)
DigitsValue(s) ==
    IF s = <<>> THEN 0
    ELSE DigitsValue(SubSeq(s, 1, Len(s) - 1)) * 10 + DigitValue(s[Len(s)])

GetInt(text) ==
    IF text # <<>> /\ \A i \in 1..Len(text) : DigitValue(text[i]) >= 0
    THEN <<DigitsValue(text)>>
    ELSE <<>>

-----------------------------------------------------------------------------
\* datetime

DateTime(y, mo, d, h, mi, s, us) ==
    [year |-> y, month |-> mo, day |-> d, hour |-> h, minute |-> mi,
     second |-> s, microsecond |-> us]

DtKey(d) == <<d.year, d.month, d.day, d.hour, d.minute, d.second, d.microsecond>>

RECURSIVE LexLess(_, _)
LexLess(a, b) ==
    IF a = <<>> THEN FALSE
    ELSE IF Head(a) # Head(b) THEN Head(a) < Head(b)
    ELSE LexLess(Tail(a), Tail(b))

\* datetime.__lt__ and datetime.__le__
DtLess(a, b) == LexLess(DtKey(a), DtKey(b))
DtLeq(a, b) == a = b \/ DtLess(a, b)

IsLeap(y) == (y % 4 = 0 /\ y % 100 # 0) \/ y % 400 = 0

DaysInMonth(y, mo) ==
    IF mo = 2 THEN (IF IsLeap(y) THEN 28 + 1 ELSE 28)
    ELSE IF mo \in {4, 6, 9, 11} THEN 30 ELSE 31

\* d + timedelta(days=1)
PlusOneDay(d) ==
    IF d.day < DaysInMonth(d.year, d.month) THEN [d EXCEPT !.day = d.day + 1]
    ELSE IF d.month < 12 THEN [d EXCEPT !.day = 1, !.month = d.month + 1]
    ELSE [d EXCEPT !.day = 1, !.month = 1, !.year = d.year + 1]

\* now.replace(hour=0, minute=0, second=0, microsecond=0)
StartOfDay(n) == DateTime(n.year, n.month, n.day, 0, 0, 0, 0)

-----------------------------------------------------------------------------
\* Time formats and datetime.strptime

\* The format strings, as their directives in order ('%I:%M %p', '%H:%m').
fmt_12 == <<"%I", "%M", "%p">>
fmt_24 == <<"%H", "%m">>

\* The values a directive accepts for its field.
DirectiveAccepts(dir, v) ==
    CASE dir = "%I" -> v \in 1..12
      [] dir = "%H" -> v \in 0..23
      [] dir = "%M" -> v \in 0..59
      [] dir = "%m" -> v \in 1..12
      [] OTHER -> FALSE

\* datetime.strptime(text, fmt): <<datetime>>, or <<>> when it raises ValueError.
\* Fields no directive sets keep the defaults 1900-01-01 00:00:00.
Strptime(text, fmt) ==
    IF /\ DirectiveAccepts(fmt[1], text.hh)
       /\ DirectiveAccepts(fmt[2], text.mm)
       /\ (IF Len(fmt) = 3 THEN text.p \in {"AM", "PM"} ELSE text.p = "")
    THEN LET hour   == IF fmt[1] = "%I"
                       THEN (text.hh % 12) + (IF text.p = "PM" THEN 12 ELSE 0)
                       ELSE text.hh
             minute == IF fmt[2] = "%M" THEN text.mm ELSE 0
             month  == IF fmt[2] = "%m" THEN text.mm ELSE 1
         IN  <<DateTime(1900, month, 1, hour, minute, 0, 0)>>
    ELSE <<>>

-----------------------------------------------------------------------------
\* build_schedule

ScheduleEntry(mode, start, end) == [mode |-> mode, start |-> start, end |-> end]

\* schedule_basename + '_' + entry
SectionName(entry) == <<"schedule_">> \o entry

\* Faulty variant of EntryNames: the pieces are not trimmed.
EntryNamesNoTrim(text) ==
    IF HasComma(Strip(text)) THEN SplitComma(Strip(text)) ELSE <<Strip(text)>>

\* The entry names: lines 76 and 79-82.
EntryNames(text) ==
    LET stripped == Strip(text)
    IN  IF HasComma(stripped) THEN MapStrip(SplitComma(stripped)) ELSE <<stripped>>

\* Faulty variant of SelectFmt: every clock value of 24 or more selects the 24-hour format.
SelectFmtAtLeast(clock_type) == IF clock_type >= 24 THEN fmt_24 ELSE fmt_12

\* selected_fmt: lines 84-87.
SelectFmt(clock_type) == IF clock_type = 24 THEN fmt_24 ELSE fmt_12

\* parsed.replace(year=now.year, month=now.month, day=now.day, second=0, microsecond=0)
Project(parsed, n) ==
    [parsed EXCEPT !.year = n.year, !.month = n.month, !.day = n.day,
                   !.second = 0, !.microsecond = 0]

\* Faulty variant of Rollover: the end is never shifted.
RolloverNever(end, start_of_day) == end

\* Lines 105-106: an end at the start of the current day is the end of the day.
Rollover(end, start_of_day) ==
    IF end = start_of_day THEN PlusOneDay(end) ELSE end

\* The loop of lines 94-114 over the entry names: the exception that ends it
\* ("" when none), the schedule, and the (start, end) pairs before the rollover.
RECURSIVE BuildLoop(_, _, _, _)
BuildLoop(names, cfg, fmt, n) ==
    IF names = <<>> THEN [error |-> "", schedule |-> <<>>, projected |-> <<>>]
    ELSE
    LET section_name == SectionName(Head(names))
    IN  IF section_name \notin DOMAIN cfg.sections
        THEN [error |-> "NoSectionError", schedule |-> <<>>, projected |-> <<>>]
        ELSE
        LET section == cfg.sections[section_name]
            start0  == Strptime(section.start, fmt)
            end0    == Strptime(section.end, fmt)
        IN  IF start0 = <<>> \/ end0 = <<>>
            THEN [error |-> "ValueError", schedule |-> <<>>, projected |-> <<>>]
            ELSE
            LET start == Project(start0[1], n)
                end1  == Project(end0[1], n)
                end   == Rollover(end1, StartOfDay(n))
                rest  == BuildLoop(Tail(names), cfg, fmt, n)
            IN  IF rest.error # "" THEN rest
                ELSE [error |-> "",
                      schedule |-> <<ScheduleEntry(section.mode, start, end)>>
                                     \o rest.schedule,
                      projected |-> <<[start |-> start, end |-> end1]>>
                                     \o rest.projected]

-----------------------------------------------------------------------------
\* find_entry

\* Faulty variant of Contains: the interval is closed at its end.
ContainsClosed(entry, n) == DtLeq(entry.start, n) /\ DtLeq(n, entry.end)

\* Line 125: entry.start <= now < entry.end
Contains(entry, n) == DtLeq(entry.start, n) /\ DtLess(n, entry.end)

\* Lines 122-126: the scan, found being found_entry so far (<<>> for None).
RECURSIVE Scan(_, _, _)
Scan(sched, n, found) ==
    IF sched = <<>> THEN found
    ELSE Scan(Tail(sched), n, IF Contains(Head(sched), n) THEN <<Head(sched)>> ELSE found)

\* Faulty variant of find_entry: the scan stops at the first match.
RECURSIVE FirstMatch(_, _)
FirstMatch(sched, n) ==
    IF sched = <<>> THEN <<>>
    ELSE IF Contains(Head(sched), n) THEN <<Head(sched)>>
    ELSE FirstMatch(Tail(sched), n)

\* Faulty variant of find_entry: the first entry is the default when none matches.
FindOrDefault(sched, n) ==
    IF Scan(sched, n, <<>>) = <<>> /\ sched # <<>> THEN <<Head(sched)>>
    ELSE Scan(sched, n, <<>>)

\* find_entry(schedule) at now = n: <<entry>>, or <<>> when it raises RuntimeError.
find_entry(sched, n) == Scan(sched, n, <<>>)

-----------------------------------------------------------------------------
\* check_station_mode and main

\* Faulty variant of ModesMatch: the comparison is case-sensitive.
ModesMatchExact(expected, observed) == expected = observed

\* Line 137: found_entry.mode.lower() == station_mode.lower()
ModesMatch(expected, observed) == Lower(expected) = Lower(observed)

\* Lines 58-61.
RecipientList(text) ==
    IF HasComma(text) THEN MapStrip(SplitComma(text)) ELSE <<text>>

-----------------------------------------------------------------------------
\* The run of main from line 53 on.

\* The instants datetime.now() returns in the model: around the entry bounds of
\* the build day (a 29 February) and at the start of the day after it, and the
\* same around the end of a year.
BuildDay(h, mi, s, us) == DateTime(2024, 2, 29, h, mi, s, us)

Instants ==
    { BuildDay(8, 59, 59, 999999), BuildDay(9, 0, 0, 0), BuildDay(13, 0, 0, 0),
      BuildDay(17, 0, 0, 0), BuildDay(23, 30, 0, 0),
      DateTime(2024, 3, 1, 0, 0, 0, 0),
      DateTime(2025, 12, 31, 23, 30, 0, 0), DateTime(2026, 1, 1, 0, 0, 0, 0) }

\* Line 53: schedule = build_schedule(config), now being datetime.now() of line 89.
BuildSchedule ==
    /\ pc = "build"
    /\ LET clock_type == GetInt(config.clock)
       IN  IF clock_type = <<>>
           THEN /\ pc' = "aborted"
                /\ error' = "ValueError: clock"
                /\ UNCHANGED <<entries, selected_fmt, projected, schedule>>
           ELSE
           LET names == EntryNames(config.entries)
               fmt   == SelectFmt(clock_type[1])
               built == BuildLoop(names, config, fmt, now)
           IN  /\ entries' = names
               /\ selected_fmt' = fmt
               /\ projected' = built.projected
               /\ schedule' = built.schedule
               /\ error' = built.error
               /\ pc' = IF built.error = "" THEN "recipients" ELSE "aborted"
    /\ UNCHANGED <<config, stations, now, recipients, station, found_entry,
                   connection, session, raised, checked>>

\* Lines 54-64: the SMTP manager, the recipient list, and the head of the loop.
SplitRecipients ==
    /\ pc = "recipients"
    /\ recipients' = RecipientList(config.recipients)
    /\ connection' = "None"
    /\ pc' = IF stations = <<>> THEN "done" ELSE "find"
    /\ UNCHANGED <<config, stations, now, error, entries, selected_fmt, projected,
                   schedule, station, found_entry, session, raised, checked>>

\* Line 68: found_entry = find_entry(schedule), at a datetime.now() not before
\* the previous one.
FindEntry ==
    /\ pc = "find"
    /\ \E t \in Instants :
         /\ DtLeq(now, t)
         /\ now' = t
         /\ LET found == find_entry(schedule, t)
            IN  IF found = <<>>
                THEN /\ pc' = "aborted"
                     /\ error' = "RuntimeError: Entry not found."
                     /\ UNCHANGED found_entry
                ELSE /\ pc' = "check"
                     /\ found_entry' = found
                     /\ UNCHANGED error
    /\ UNCHANGED <<config, stations, entries, selected_fmt, projected, schedule,
                   recipients, station, connection, session, raised, checked>>

\* The loop of line 64 moves to the next station, or ends.
NextPc == IF station < Len(stations) THEN "find" ELSE "done"
NextStation == IF station < Len(stations) THEN station + 1 ELSE station

\* Lines 136-140: the comparison of check_station_mode.
CheckStationMode ==
    /\ pc = "check"
    /\ checked' = Append(checked, [station |-> station,
                                   expected |-> found_entry[1].mode,
                                   observed |-> stations[station],
                                   opened |-> 0, sent |-> 0, quit |-> 0])
    /\ IF ModesMatch(found_entry[1].mode, stations[station])
       THEN /\ pc' = NextPc
            /\ station' = NextStation
       ELSE /\ pc' = "connect"
            /\ UNCHANGED station
    /\ UNCHANGED <<config, stations, now, error, entries, selected_fmt, projected,
                   schedule, recipients, found_entry, connection, session, raised>>

\* Line 196: SMTP(server, port) connects.
SMTPConnect ==
    /\ pc = "connect"
    /\ connection' = "SMTP"
    /\ session' = "connected"
    /\ checked' = [checked EXCEPT ![Len(checked)].opened = @ + 1]
    /\ pc' = "handshake"
    /\ UNCHANGED <<config, stations, now, error, entries, selected_fmt, projected,
                   schedule, recipients, station, found_entry, raised>>

\* Line 196: SMTP(server, port) raises; __enter__ has assigned nothing.
SMTPConnectFails ==
    /\ pc = "connect"
    /\ pc' = "aborted"
    /\ error' = "SMTPException: connect"
    /\ UNCHANGED <<config, stations, now, entries, selected_fmt, projected,
                   schedule, recipients, station, found_entry, connection,
                   session, raised, checked>>

\* Lines 199-204: ehlo, starttls, ehlo and login succeed; __enter__ returns.
SMTPHandshake ==
    /\ pc = "handshake"
    /\ session' = "ready"
    /\ pc' = "sendmail"
    /\ UNCHANGED <<config, stations, now, error, entries, selected_fmt, projected,
                   schedule, recipients, station, found_entry, connection,
                   raised, checked>>

\* Lines 199-202: one of ehlo, starttls, login raises inside __enter__; the with
\* statement has not been entered, so __exit__ does not run.
SMTPHandshakeFails ==
    /\ pc = "handshake"
    /\ pc' = "aborted"
    /\ error' = "SMTPException: handshake"
    /\ UNCHANGED <<config, stations, now, entries, selected_fmt, projected,
                   schedule, recipients, station, found_entry, connection,
                   session, raised, checked>>

\* Lines 145-153: the message is sent.
Sendmail ==
    /\ pc = "sendmail"
    /\ checked' = [checked EXCEPT ![Len(checked)].sent = @ + 1]
    /\ pc' = "exit"
    /\ UNCHANGED <<config, stations, now, error, entries, selected_fmt, projected,
                   schedule, recipients, station, found_entry, connection,
                   session, raised>>

\* Line 152: sendmail raises; the exception leaves the with block.
SendmailFails ==
    /\ pc = "sendmail"
    /\ raised' = TRUE
    /\ pc' = "exit"
    /\ UNCHANGED <<config, stations, now, error, entries, selected_fmt, projected,
                   schedule, recipients, station, found_entry, connection,
                   session, checked>>

\* Lines 206-210: __exit__ quits and forgets the connection; it returns None, so
\* an exception of the block goes on to main.
SMTPExit ==
    /\ pc = "exit"
    /\ session' = "closed"
    /\ connection' = "None"
    /\ checked' = [checked EXCEPT ![Len(checked)].quit = @ + 1]
    /\ raised' = FALSE
    /\ IF raised
       THEN /\ pc' = "aborted"
            /\ error' = "SMTPException: sendmail"
            /\ UNCHANGED station
       ELSE /\ pc' = NextPc
            /\ station' = NextStation
            /\ UNCHANGED error
    /\ UNCHANGED <<config, stations, now, entries, selected_fmt, projected,
                   schedule, recipients, found_entry>>

Next ==
    \/ BuildSchedule
    \/ SplitRecipients
    \/ FindEntry
    \/ CheckStationMode
    \/ SMTPConnect
    \/ SMTPConnectFails
    \/ SMTPHandshake
    \/ SMTPHandshakeFails
    \/ Sendmail
    \/ SendmailFails
    \/ SMTPExit

-----------------------------------------------------------------------------
\* Configurations and initial states.

TimeText(h, m, p) == [hh |-> h, mm |-> m, p |-> p]

\* Time-of-day strings of section values: 12-hour ones, then 24-hour ones.
TimeTexts ==
    { TimeText(12, 0, "AM"), TimeText(6, 0, "AM"), TimeText(9, 0, "AM"),
      TimeText(12, 30, "PM"), TimeText(5, 0, "PM"), TimeText(10, 0, "PM"),
      TimeText(0, 5, ""), TimeText(9, 5, ""), TimeText(13, 30, ""),
      TimeText(17, 0, "") }

Section(mode, start, end) == [mode |-> mode, start |-> start, end |-> end]

\* The sections schedule_a and schedule_b.
Sections(a, b) ==
    (SectionName(<<"a">>) :> a) @@ (SectionName(<<"b">>) :> b)

Config(entries_text, clock_text, sections, recipients_text) ==
    [entries |-> entries_text, clock |-> clock_text, sections |-> sections,
     recipients |-> recipients_text]

\* Mode labels that differ in case, in letters and in length.
Labels ==
    { <<"A", "r">>, <<"a", "r">>, <<"A", "R">>, <<"a", "R">>,
      <<"d", "i">>, <<"D", "i">>, <<"a">> }

\* The base stations' modes: at most MaxStations stations.
StationLists(modes) == UNION { [1..n -> modes] : n \in 0..MaxStations }

\* Values RawConfigParser.get returns for a list option: text of commas, blanks
\* and letters without leading or trailing blanks.
ListChars == {"a", "b", ",", " "}

ListTexts ==
    { s \in UNION { [1..n -> ListChars] : n \in 0..MaxListLen } :
        s = <<>> \/ (s[1] # " " /\ s[Len(s)] # " ") }

InitRun ==
    /\ pc = "build"
    /\ error = ""
    /\ entries = <<>>
    /\ selected_fmt = <<>>
    /\ projected = <<>>
    /\ schedule = <<>>
    /\ recipients = <<>>
    /\ station = 1
    /\ found_entry = <<>>
    /\ connection = "None"
    /\ session = "none"
    /\ raised = FALSE
    /\ checked = <<>>

\* Schedules: every pair of time strings for entry a, both clocks and clock
\* values that are not 12 or 24, entry lists in both orders.
Init ==
    /\ config \in
         { Config(e, c, Sections(Section(<<"A", "r">>, s1, e1), b), <<"a">>) :
             e \in { <<"a">>, <<"a", ",", "b">>, <<"b", ",", " ", "a">>, <<"c">> },
             c \in { <<"1", "2">>, <<"2", "4">>, <<"2", "5">>, <<"x">> },
             s1 \in TimeTexts, e1 \in TimeTexts,
             b \in { Section(<<"d", "i">>, TimeText(12, 30, "PM"), TimeText(5, 0, "PM")),
                     Section(<<"d", "i">>, TimeText(9, 5, ""), TimeText(0, 5, "")) } }
    /\ stations \in StationLists({ <<"a", "r">> })
    /\ now \in { BuildDay(8, 59, 59, 999999), BuildDay(13, 0, 0, 0),
                 DateTime(2025, 12, 31, 23, 30, 0, 0) }
    /\ InitRun

Spec == Init /\ [][Next]_vars

\* Mode labels: one entry covering the whole build day, every expected label
\* against every list of observed labels.
InitNotify ==
    /\ config \in
         { Config(<<"a">>, <<"1", "2">>,
                  Sections(Section(m, TimeText(12, 0, "AM"), TimeText(12, 0, "AM")),
                           Section(<<"d", "i">>, TimeText(9, 0, "AM"), TimeText(5, 0, "PM"))),
                  <<"a", ",", "b">>) :
             m \in Labels }
    /\ stations \in StationLists(Labels)
    /\ now = BuildDay(9, 0, 0, 0)
    /\ InitRun

SpecNotify == InitNotify /\ [][Next]_vars

\* List options: every entry list with a fixed recipient list, and every
\* recipient list with a fixed entry list.
InitSplit ==
    /\ config \in
         { Config(e, <<"1", "2">>,
                  Sections(Section(<<"A", "r">>, TimeText(9, 0, "AM"), TimeText(5, 0, "PM")),
                           Section(<<"d", "i">>, TimeText(12, 30, "PM"), TimeText(5, 0, "PM"))),
                  r) :
             <<e, r>> \in (ListTexts \X { <<"a", ",", " ", "b">> })
                          \cup ({ <<"a", ",", "b">> } \X ListTexts) }
    /\ stations \in StationLists({ <<"a", "r">> })
    /\ now = BuildDay(13, 0, 0, 0)
    /\ InitRun

SpecSplit == InitSplit /\ [][Next]_vars

-----------------------------------------------------------------------------
\* Properties.

\* Positions of main inside the body of the station loop, after find_entry.
InStation == {"check", "connect", "handshake", "sendmail", "exit"}

NotFound == "RuntimeError: Entry not found."

\* build_schedule has returned a schedule.
Built == pc # "build" /\ error \notin {"ValueError: clock", "NoSectionError", "ValueError"}

\* start <= n < end, on the fields of the datetimes.
InInterval(entry, n) ==
    /\ entry.start = n \/ LexLess(DtKey(entry.start), DtKey(n))
    /\ LexLess(DtKey(n), DtKey(entry.end))

Matching == { i \in 1..Len(schedule) : InInterval(schedule[i], now) }

SetMax(S) == CHOOSE x \in S : \A y \in S : y <= x
SetMin(S) == CHOOSE x \in S : \A y \in S : x <= y

\* C1: an entry find_entry returns satisfies start <= now < end (half-open):
\* an interval whose end equals now does not make its entry the result, one
\* whose start equals now can.
C1_HalfOpen ==
    pc \in InStation =>
        /\ found_entry # <<>>
        /\ \E i \in 1..Len(schedule) : schedule[i] = found_entry[1]
        /\ DtLeq(found_entry[1].start, now)
        /\ DtLess(now, found_entry[1].end)
        /\ found_entry[1].end # now

\* The entry returned starts exactly at now, and another entry ends exactly at now.
C1_Witness ==
    /\ pc = "check"
    /\ found_entry[1].start = now
    /\ \E i \in 1..Len(schedule) : schedule[i].end = now

\* C2: when several entries contain now, find_entry returns the matching entry
\* of greatest index: no matching entry comes after the returned one.
C2_LastMatchWins ==
    pc \in InStation =>
        /\ Matching # {}
        /\ found_entry = <<schedule[SetMax(Matching)]>>

\* Two different entries contain now and the later one was returned.
C2_Witness ==
    /\ pc = "check"
    /\ Cardinality(Matching) >= 2
    /\ schedule[SetMin(Matching)] # schedule[SetMax(Matching)]
    /\ found_entry = <<schedule[SetMax(Matching)]>>

\* C3: when no entry satisfies start <= now < end, find_entry raises instead of
\* returning an entry or a default, and the run aborts: for that station and
\* the later ones there is no comparison and no notification.
C3_NoEntryAborts ==
    /\ pc \in InStation => Matching # {}
    /\ error = NotFound =>
        /\ pc = "aborted"
        /\ Matching = {}
        /\ ~ENABLED Next
        /\ \A k \in 1..Len(checked) : checked[k].station < station
        /\ Len(checked) = station - 1

\* The run aborted at the second station, after the first was compared.
C3_Witness ==
    /\ error = NotFound
    /\ station = 2
    /\ Len(checked) = 1
    /\ schedule # <<>>

\* C4 (as claimed): every entry of the schedule has start < end.
C4_StartBeforeEnd ==
    Built => \A i \in 1..Len(schedule) : DtLess(schedule[i].start, schedule[i].end)

\* The hour and the minute a time-of-day string states, read in a clock format.
WrittenHour(text, fmt) ==
    IF fmt = fmt_12 THEN (text.hh % 12) + (IF text.p = "PM" THEN 12 ELSE 0)
    ELSE text.hh

WrittenMinute(text) == text.mm

SectionOf(i) == config.sections[SectionName(entries[i])]

ProjectionOf(d, text) ==
    /\ d.hour = WrittenHour(text, selected_fmt)
    /\ d.minute = WrittenMinute(text)
    /\ d.second = 0
    /\ d.microsecond = 0

\* C5 (as claimed): before the rollover, start and end have the hour and the
\* minute written in the entry's strings, the date of now, and zero seconds and
\* microseconds, in both clock formats.
C5_ProjectedFields ==
    pc = "recipients" =>
        \A i \in 1..Len(projected) :
            /\ ProjectionOf(projected[i].start, SectionOf(i).start)
            /\ ProjectionOf(projected[i].end, SectionOf(i).end)
            /\ StartOfDay(projected[i].start) = StartOfDay(now)
            /\ StartOfDay(projected[i].end) = StartOfDay(now)

\* C6: the end is shifted by exactly one day if and only if the projected end
\* is 00:00:00 of the current day, and is then the start of the next day and
\* after the start; no other end and no start is shifted.
C6_Rollover ==
    pc = "recipients" =>
        /\ Len(schedule) = Len(projected)
        /\ \A i \in 1..Len(schedule) :
            /\ schedule[i].start = projected[i].start
            /\ IF projected[i].end = StartOfDay(now)
               THEN /\ schedule[i].end = PlusOneDay(StartOfDay(now))
                    /\ LexLess(DtKey(schedule[i].start), DtKey(schedule[i].end))
               ELSE schedule[i].end = projected[i].end

\* An end written as midnight was shifted, next to an end that was not.
C6_Witness ==
    /\ pc = "recipients"
    /\ \E i \in 1..Len(schedule) :
         projected[i].end = StartOfDay(now) /\ schedule[i].end # projected[i].end
    /\ \E i \in 1..Len(schedule) : schedule[i].end = projected[i].end

\* The two labels of a comparison differ when case is ignored.
Differ(r) == Lower(r.expected) # Lower(r.observed)

\* check_station_mode has returned from the k-th comparison.
Returned(k) == checked[k].station < station \/ pc = "done"

\* C7: check_station_mode opens an SMTP session and calls sendmail once if and
\* only if the labels differ ignoring case; when they are equal ignoring case no
\* session is opened and nothing is sent.  A call an SMTP error ends has not
\* returned; it has sent at most once, and only for labels that differ.
C7_NotifyIffDiffer ==
    \A k \in 1..Len(checked) :
        /\ checked[k].observed = stations[checked[k].station]
        /\ ~Differ(checked[k]) => checked[k].opened = 0 /\ checked[k].sent = 0
        /\ checked[k].opened <= 1 /\ checked[k].sent <= checked[k].opened
        /\ Returned(k) =>
               (Differ(checked[k]) <=> checked[k].opened = 1 /\ checked[k].sent = 1)

\* One station's label equals the expected one only when case is ignored and
\* nothing was sent for it; another's differs and one message was sent.
C7_Witness ==
    /\ pc = "done"
    /\ \E k \in 1..Len(checked) :
         /\ checked[k].expected # checked[k].observed
         /\ ~Differ(checked[k])
         /\ checked[k].opened = 0
    /\ \E k \in 1..Len(checked) : Differ(checked[k]) /\ checked[k].sent = 1

\* C8 (as claimed): the 24-hour format is selected exactly when the clock value
\* is 24, the 12-hour format for every other value, and the clock value raises
\* no error.
C8_AnyClockValue ==
    pc # "build" =>
        /\ error # "ValueError: clock"
        /\ selected_fmt = (IF GetInt(config.clock) = <<24>> THEN fmt_24 ELSE fmt_12)

\* C8 (amended): for every clock value that is an integer literal; a value
\* that is not one raises ValueError in getint and no format is selected.
C8_IntegerClockValue ==
    pc # "build" =>
        IF GetInt(config.clock) # <<>>
        THEN /\ error # "ValueError: clock"
             /\ selected_fmt = (IF config.clock = <<"2", "4">> THEN fmt_24 ELSE fmt_12)
        ELSE /\ error = "ValueError: clock"
             /\ pc = "aborted"
             /\ selected_fmt = <<>>
             /\ schedule = <<>>

\* A clock value above 24 selected the 12-hour format and the schedule was built.
C8_Witness ==
    /\ config.clock = <<"2", "5">>
    /\ selected_fmt = fmt_12
    /\ pc = "recipients"
    /\ schedule # <<>>

\* The list a list option stands for, from the positions of its commas.
Commas(s) == { i \in 1..Len(s) : s[i] = "," }

Trimmed(s) ==
    LET inked == { i \in 1..Len(s) : s[i] # " " }
    IN  IF inked = {} THEN <<>> ELSE SubSeq(s, SetMin(inked), SetMax(inked))

PieceBounds(s, k) ==
    LET before == { i \in Commas(s) : Cardinality({ j \in Commas(s) : j <= i }) = k - 1 }
        after  == { i \in Commas(s) : Cardinality({ j \in Commas(s) : j <= i }) = k }
    IN  <<IF before = {} THEN 1 ELSE SetMax(before) + 1,
          IF after = {} THEN Len(s) ELSE SetMin(after) - 1>>

ListOf(s) ==
    IF Commas(s) = {} THEN <<s>>
    ELSE [k \in 1..(Cardinality(Commas(s)) + 1) |->
            Trimmed(SubSeq(s, PieceBounds(s, k)[1], PieceBounds(s, k)[2]))]

\* C9: a list string without a comma is a one-element list of that string; one
\* with a comma is its comma-separated pieces in order, each trimmed.  The entry
\* names and the recipients follow the rule, and the schedule has one entry
\* per name, in that order.
C9_ListSplitting ==
    /\ pc # "build" /\ error # "ValueError: clock" => entries = ListOf(config.entries)
    /\ pc \in InStation \cup {"find", "done"} => recipients = ListOf(config.recipients)
    /\ Built =>
        /\ Len(schedule) = Len(entries)
        /\ \A i \in 1..Len(schedule) : schedule[i].mode = SectionOf(i).mode

\* An entry list with a comma and a blank gave two entries in the order
\* written, and the recipient list was split and trimmed.
C9_Witness ==
    /\ pc = "find"
    /\ \E i \in 1..Len(config.entries) : config.entries[i] = " "
    /\ Len(schedule) = 2
    /\ schedule[1].mode = <<"d", "i">>
    /\ recipients = <<<<"a">>, <<"b">>>>

\* C10 (as claimed): outside the with block of check_station_mode every SMTP
\* connection that was created has been quit and _connection is None.
C10_ConnectionReleased ==
    pc \in {"find", "check", "done", "aborted"} =>
        /\ connection = "None"
        /\ session \in {"none", "closed"}
        /\ \A k \in 1..Len(checked) : checked[k].quit = checked[k].opened

====
